---- MODULE Spec2Model ----
(***************************************************************************)
(* Clipboard-history manager (Quantum Clipboard / ClipVault): the main     *)
(* process's clipboard poller, the clip store and the IPC handlers that    *)
(* mutate the store.                                                       *)
(*                                                                         *)
(* The repository holds two behaviourally different revisions of the main  *)
(* process; the variable rev says which one is running:                    *)
(*   "v1"  src/src/main/index.ts:1-503 (pollClipboard, insertTextClip,     *)
(*         insertImageClip).  src/unnamed/part_005:1-590 polls and stores  *)
(*         the same way (insertClip).                                      *)
(*   "v3"  src/unnamed/part_005:591-1251 (pollClipboardStart,              *)
(*         insertClipText, insertClipImage, updatedAt column).             *)
(*                                                                         *)
(* Strings are sequences of one-character strings, so that trim() is       *)
(* computed and not assumed.  SQL NULL is the value NULL.                  *)
(***************************************************************************)
EXTENDS Integers, Sequences, FiniteSets, TLC

VARIABLES
  rev,           \* revision of the main process that is running
  now,           \* Date.now() of the latest event (ms)
  clipText,      \* OS clipboard: text slot (raw string)
  clipImg,       \* OS clipboard: image slot (NoImage or a PNG)
  clips,         \* table clips: set of rows
  lastText,      \* poller: last known text
  lastImageSig,  \* poller: last known image signature (lastImageHash in v3)
  lastSeenTick,  \* poller: time of the last accepted tick (v1 only)
  last,          \* what the latest handler did (op, notify sent, record emitted)
  ticks,         \* number of timer callbacks run so far
  copies,        \* number of clipboard writes so far
  edits,         \* number of UI store mutations so far
  emittedSinceWrite,  \* history: kinds of the records emitted since the latest clipboard write
  recopiedAt,    \* history: when the latest clipboard write repeated the text before it (0: it did not)
  phase,         \* the process: "running", "quitting" (will-quit emitted) or "stopped"
  settings,      \* table settings: key -> value, for the keys that are present
  schema,        \* table clips: the columns it has
  restarts,      \* number of lifecycle and settings events so far
  answer,        \* what the latest get-history call was asked and what it returned
  reply,         \* what the latest IPC handler returned ("none": the latest event was not an IPC call)
  seen,          \* the store as it was when history-updated was sent last
  shown,         \* the popup window is visible
  interaction,   \* the interaction locks the renderer has reported (v3)
  packaged,      \* app.isPackaged: a packaged build, not a development run
  stack          \* the poll callback in progress and the statement it has reached

\* the database and the process around the poller
process == <<phase, settings, schema, restarts>>

vars == <<rev, now, clipText, clipImg, clips, lastText, lastImageSig,
          lastSeenTick, last, ticks, copies, edits, emittedSinceWrite, recopiedAt,
          phase, settings, schema, restarts, answer, reply, seen,
          shown, interaction, packaged, stack>>

\* the popup window and what the main process knows about the UI
window == <<shown, interaction, packaged>>

----------------------------------------------------------------------------
(* Bounds of the model *)

MaxEvents == 4

\* size of the largest history a query is asked of, and how often a record of
\* a large history is pinned
MaxRows == 500
PinEvery == 7

\* number of Image records in the largest history an image is inserted into
MaxImages == 32

(* Program constants *)

POLL_INTERVAL == 450
MIN_GAP == 200
PNG_FLOOR == 8192
DATAURL_FLOOR == 2000
DEDUP_WINDOW == 30
DATAURL_PREFIX_LEN == 22

(* Environment: the time the process starts at, how early a misbehaving
   timer may fire, and how long after the previous event a copy happens. *)
StartTime == 1000
EarlyFire == 100
CopyGap == 50

Revisions == {"v1", "v3"}

\* events so far: timer callbacks, clipboard writes, UI mutations, lifecycle events
Events == ticks + copies + edits + restarts
TickDelays == {EarlyFire, POLL_INTERVAL}

----------------------------------------------------------------------------
(* Values *)

NULL == <<"NULL">>
NoTime == -1
NoImage == <<>>
NoSig == <<>>

\* raw clipboard texts: empty, whitespace only, padded, case variants
RawTexts == { <<" ">>, <<"a">>, <<" ", "a", " ">>, <<"b">> }

\* texts the UI may send to update-clip-text
EditTexts == { <<" ">>, <<"a", " ">> }

\* a PNG on the clipboard: <<first 64 bytes, byte length, remaining bytes>>
Images == { <<"h1", 4000, "x">>, <<"h1", 8192, "x">>, <<"h2", 9000, "x">> }

\* file name found in the clipboard's public.file-url slot, if any
FileNames == { NULL, <<"c", ".", "p">> }

EditNames == { <<" ", "n">> }
TagLists == { << <<"t">> >> }

\* random suffixes Math.random() may produce
RandSuffixes == { "3a" }

MissingId == <<0, "none">>

----------------------------------------------------------------------------
(* Pure helpers *)

IsSpace(c) == c = " "

RECURSIVE TrimStart(_)
TrimStart(s) ==
  IF s = <<>> THEN <<>>
  ELSE IF IsSpace(Head(s)) THEN TrimStart(Tail(s)) ELSE s

RECURSIVE TrimEnd(_)
TrimEnd(s) ==
  IF s = <<>> THEN <<>>
  ELSE IF IsSpace(s[Len(s)]) THEN TrimEnd(SubSeq(s, 1, Len(s) - 1)) ELSE s

\* a trim that forgets the trailing whitespace
Trim_startOnly(s) == TrimStart(s)

\* String.prototype.trim
Trim(s) == TrimEnd(TrimStart(s))

\* nowId / randId: Date.now() followed by a random suffix
nowId(t, r) == <<t, r>>

\* default image name: built from the wall clock, to the second
defaultImageName(t) == <<"Image-", ToString(t \div 1000), ".png">>

\* length of `data:image/png;base64,${png.toString("base64")}`
DataUrlLen(png) == DATAURL_PREFIX_LEN + 4 * ((png[2] + 2) \div 3)

\* sigFromPng: hex of the first 64 bytes, ":" , length
sigFromPng(png) == IF png = NoImage THEN NoSig ELSE <<png[1], png[2]>>

\* imageHash (v3): length, ":", hex of the first 64 bytes
imageHash(img) == IF img = NoImage THEN NoSig ELSE <<img[2], img[1]>>

\* signature used by the store: first 100 characters of the data URL and its length
dataUrlSig(png) == IF png = NULL THEN <<<<>>, 0>> ELSE <<png[1], DataUrlLen(png)>>

----------------------------------------------------------------------------
(* The store *)

Row(id, kind, text, dataUrl, name, t) ==
  [ id |-> id, kind |-> kind, text |-> text, imageDataUrl |-> dataUrl,
    imageName |-> name, createdAt |-> t, updatedAt |-> NoTime,
    pinned |-> 0, tags |-> <<>>,
    color |-> NULL, borderColor |-> NULL, bgColor |-> NULL ]

TextRows(S) == { c \in S : c.kind = "text" }
ImageRows(S) == { c \in S : c.kind = "image" }

\* the row a SELECT without ORDER BY returns first: the earliest inserted
FirstRow(S) == CHOOSE c \in S : \A x \in S : c.createdAt <= x.createdAt

\* the row ORDER BY createdAt DESC returns first
NewestRow(S) == CHOOSE c \in S : \A x \in S : c.createdAt >= x.createdAt

\* rows of S that ORDER BY createdAt DESC LIMIT n returns
Newest(S, n) == { c \in S : Cardinality({ x \in S : x.createdAt > c.createdAt }) < n }

\* an insert that hands the pin and the tags of the duplicate to the new record
insertTextClip_keepsMeta(S, textRaw, id, t) ==
  LET text == Trim(textRaw)
      existing == { c \in TextRows(S) : c.text = text }
      kept == IF existing = {} THEN S ELSE S \ { FirstRow(existing) }
      fresh == Row(id, "text", text, NULL, NULL, t)
  IN  IF text = <<>> THEN S
      ELSE kept \cup { IF existing = {} THEN fresh
                       ELSE [ fresh EXCEPT !.pinned = FirstRow(existing).pinned,
                                           !.tags = FirstRow(existing).tags ] }

\* v1: insertTextClip
insertTextClip(S, textRaw, id, t) ==
  LET text == Trim(textRaw)
      existing == { c \in TextRows(S) : c.text = text }
      kept == IF existing = {} THEN S ELSE S \ { FirstRow(existing) }
  IN  IF text = <<>> THEN S
      ELSE kept \cup { Row(id, "text", text, NULL, NULL, t) }

\* an insert that looks for the duplicate in the whole history
insertImageClip_wholeHistory(S, png, imageName, id, t) ==
  LET name == IF imageName = NULL \/ Trim(imageName) = <<>>
              THEN defaultImageName(t) ELSE Trim(imageName)
      sig == dataUrlSig(png)
      same == { e \in ImageRows(S) : dataUrlSig(e.imageDataUrl) = sig }
      kept == IF same = {} THEN S ELSE S \ { NewestRow(same) }
  IN  IF png = NoImage \/ DataUrlLen(png) < DATAURL_FLOOR THEN S
      ELSE kept \cup { Row(id, "image", NULL, png, name, t) }

\* v1: insertImageClip
insertImageClip(S, png, imageName, id, t) ==
  LET name == IF imageName = NULL \/ Trim(imageName) = <<>>
              THEN defaultImageName(t) ELSE Trim(imageName)
      sig == dataUrlSig(png)
      recent == Newest(ImageRows(S), DEDUP_WINDOW)
      same == { e \in recent : dataUrlSig(e.imageDataUrl) = sig }
      kept == IF same = {} THEN S ELSE S \ { NewestRow(same) }
  IN  IF png = NoImage \/ DataUrlLen(png) < DATAURL_FLOOR THEN S
      ELSE kept \cup { Row(id, "image", NULL, png, name, t) }

\* an insert that keeps no more records than a query returns
insertClipText_capped(S, text, id, t) ==
  LET all == S \cup { Row(id, "text", text, NULL, NULL, t) }
  IN  IF Cardinality(all) > 400 THEN all \ { FirstRow(all) } ELSE all

\* v3: insertClipText
insertClipText(S, text, id, t) ==
  S \cup { Row(id, "text", text, NULL, NULL, t) }

\* v3: insertClipImage
insertClipImage(S, dataUrl, imageName, id, t) ==
  S \cup { Row(id, "image", NULL, dataUrl, imageName, t) }

----------------------------------------------------------------------------
(* Query: getHistory and the renderer's local filter *)

HISTORY_LIMIT_V1 == 300
HISTORY_LIMIT_V3 == 400

\* LIMIT of the SELECT in getHistory
HistoryLimit(r) == IF r = "v1" THEN HISTORY_LIMIT_V1 ELSE HISTORY_LIMIT_V3

UpperCase == <<"A", "C", "E", "G", "H", "I", "M", "T", "X">>
LowerCase == <<"a", "c", "e", "g", "h", "i", "m", "t", "x">>

\* String.prototype.toLowerCase
toLowerCase(s) ==
  [ k \in 1..Len(s) |->
      IF \E u \in 1..Len(UpperCase) : UpperCase[u] = s[k]
      THEN LowerCase[CHOOSE u \in 1..Len(UpperCase) : UpperCase[u] = s[k]]
      ELSE s[k] ]

\* a search that only looks at the start of the string
includes_atStart(s, q) == Len(q) <= Len(s) /\ SubSeq(s, 1, Len(q)) = q

\* String.prototype.includes
includes(s, q) ==
  /\ Len(q) <= Len(s)
  /\ \E i \in 0..(Len(s) - Len(q)) : SubSeq(s, i + 1, i + Len(q)) = q

\* Array.prototype.join(",")
RECURSIVE join(_)
join(tags) ==
  IF tags = <<>> THEN <<>>
  ELSE IF Len(tags) = 1 THEN tags[1]
  ELSE tags[1] \o <<",">> \o join(Tail(tags))

\* `it.text ?? ""`, `it.imageName ?? ""`
orEmpty(v) == IF v = NULL THEN <<>> ELSE v

RESERVED_IMAGE == <<"i", "m", "a", "g", "e">>

\* a filter without the reserved token
matches_noReserved(it, q) ==
  \/ includes(toLowerCase(orEmpty(it.text)), q)
  \/ includes(toLowerCase(join(it.tags)), q)
  \/ includes(toLowerCase(orEmpty(it.imageName)), q)

\* the predicate of items.filter(...), q already trimmed and lower-cased
matches(it, q) ==
  IF q = RESERVED_IMAGE THEN it.kind = "image"
  ELSE \/ includes(toLowerCase(orEmpty(it.text)), q)
       \/ includes(toLowerCase(join(it.tags)), q)
       \/ includes(toLowerCase(orEmpty(it.imageName)), q)

\* ORDER BY pinned DESC, createdAt DESC
OrderBy(a, b) ==
  \/ a.pinned > b.pinned
  \/ a.pinned = b.pinned /\ a.createdAt > b.createdAt

\* rows inserted at the same millisecond, one after the other
RECURSIVE scanTies(_)
scanTies(S) ==
  IF S = {} THEN <<>>
  ELSE LET c == CHOOSE x \in S : TRUE IN <<c>> \o scanTies(S \ { c })

\* the rows of the table inserted between lo and hi, as a scan returns them:
\* in the order they were inserted
RECURSIVE scanRange(_, _, _)
scanRange(S, lo, hi) ==
  IF S = {} THEN <<>>
  ELSE IF lo >= hi THEN scanTies(S)
  ELSE LET mid == (lo + hi) \div 2
       IN  scanRange({ x \in S : x.createdAt <= mid }, lo, mid)
           \o scanRange({ x \in S : x.createdAt > mid }, mid + 1, hi)

\* the latest time an event of the model happens at
Horizon == StartTime + (MaxEvents + 1) * POLL_INTERVAL

scan(S) == scanRange(S, 0, Horizon)

\* a SELECT without the LIMIT
selectHistory_noLimit(S, r) == SortSeq(scan(S), OrderBy)

\* SELECT * FROM clips ORDER BY pinned DESC, createdAt DESC LIMIT n
selectHistory(S, r) ==
  LET sorted == SortSeq(scan(S), OrderBy)
  IN  SubSeq(sorted, 1, IF Len(sorted) < HistoryLimit(r) THEN Len(sorted) ELSE HistoryLimit(r))

\* a query that filters the whole table and caps what is left
getHistory_filterFirst(S, query, r) ==
  LET q == toLowerCase(Trim(query))
      all == SortSeq(scan(S), OrderBy)
      found == IF q = <<>> THEN all ELSE SelectSeq(all, LAMBDA it : matches(it, q))
  IN  SubSeq(found, 1, IF Len(found) < HistoryLimit(r) THEN Len(found) ELSE HistoryLimit(r))

\* getHistory(query)
getHistory(S, query, r) ==
  LET q == toLowerCase(Trim(query))
      items == selectHistory(S, r)
  IN  IF q = <<>> THEN items ELSE SelectSeq(items, LAMBDA it : matches(it, q))

\* renderer: the `visible` list computed from the items a refresh delivered
visible(items, query) ==
  LET q == toLowerCase(Trim(query))
  IN  IF q = <<>> THEN items ELSE SelectSeq(items, LAMBDA it : matches(it, q))

----------------------------------------------------------------------------
(* Store initialisation: dbInit *)

\* settings values are strings: sequences of characters (or of longer pieces)
DEFAULT_SHORTCUT == <<"CommandOrControl+Shift+V">>

\* the settings each revision seeds when the key has no value
SettingsDefaults(r) ==
  IF r = "v1"
  THEN [ popupShortcut |-> DEFAULT_SHORTCUT, theme |-> <<"DEFAULT_THEME">> ]
  ELSE [ popupShortcut |-> DEFAULT_SHORTCUT, lang |-> <<"en">>, theme |-> <<"DEFAULT_THEME">>,
         closeOnCopy |-> <<"true">>, closeOnCopyDelayMs |-> <<"0">>,
         closeOnBlur |-> <<"false">>, startAtLogin |-> <<"false">> ]

\* getSetting (v3): the value stored under key k, or undefined
NoValue == <<"undefined">>
getSetting(st, k) == IF k \in DOMAIN st THEN st[k] ELSE NoValue

\* the test that decides whether a default is written:
\* v1 `!SELECT 1 FROM settings WHERE key = ?`, v3 `!getSetting(key)`
NeedsDefault(r, st, k) ==
  IF r = "v1" THEN k \notin DOMAIN st
  ELSE getSetting(st, k) = NoValue \/ getSetting(st, k) = <<>>

\* setSetting: INSERT ... ON CONFLICT(key) DO UPDATE
setSetting(st, k, v) == [ x \in DOMAIN st \cup { k } |-> IF x = k THEN v ELSE st[x] ]

\* the "Defaults" block of dbInit
seedDefaults(r, st) ==
  [ k \in DOMAIN st \cup DOMAIN SettingsDefaults(r) |->
      IF k \in DOMAIN SettingsDefaults(r) /\ NeedsDefault(r, st, k)
      THEN SettingsDefaults(r)[k] ELSE st[k] ]

\* columns of CREATE TABLE IF NOT EXISTS clips
CreatedColumns(r) ==
  IF r = "v1"
  THEN { "id", "kind", "text", "imageDataUrl", "createdAt", "pinned", "tagsJson" }
  ELSE { "id", "kind", "text", "imageDataUrl", "imageName", "createdAt", "updatedAt",
         "pinned", "tagsJson", "borderColor", "bgColor" }

\* columns the ensureColumn calls add when they are missing
EnsuredColumns(r) ==
  IF r = "v1" THEN { "imageName" }
  ELSE { "imageName", "updatedAt", "borderColor", "bgColor" }

\* the schema of clips after dbInit; sc = {} when the table does not exist
migrate(r, sc) == (IF sc = {} THEN CreatedColumns(r) ELSE sc) \cup EnsuredColumns(r)

NoSettings == << >>

\* the interaction locks of the main process, all clear when it starts
Locks == { "isSettingsOpen", "isModalOpen", "isPickingColor", "isRecordingShortcut",
           "isTypingSearch" }
NoLocks == [ k \in Locks |-> FALSE ]

----------------------------------------------------------------------------
(* Initial state: the process has started (dbInit on an empty database,
   setupIPC, the poll timer armed) and nothing is on the clipboard. *)

Did(op, accepted, emit, notify) ==
  [ op |-> op, accepted |-> accepted, emit |-> emit, notify |-> notify ]

\* what an IPC handler returns: `true` / `false` in v1, `{ ok: true }` /
\* `{ ok: false, reason }` in v3
returned(r, ok) ==
  IF r = "v1" THEN (IF ok THEN "true" ELSE "false")
  ELSE (IF ok THEN "{ok:true}" ELSE "{ok:false}")

\* no callback of the poller is in progress
NoCall == [ at |-> "idle", delete |-> {}, insert |-> {}, emit |-> "none" ]

\* no get-history call yet
NoAnswer == [ query |-> <<>>, items |-> <<>>, visible |-> <<>> ]

\* the store the UI is told about: history-updated is sent after the statement
\* that writes the store has run
notifyHistoryUpdated_early(before, after) == before
notifyHistoryUpdated(before, after) == after

\* what a previous run may have left in clipvault.sqlite
OldRow == Row(nowId(StartTime - POLL_INTERVAL, "3a"), "text", <<"a">>, NULL, NULL,
              StartTime - POLL_INTERVAL)
OlderRow == Row(nowId(StartTime - 2 * POLL_INTERVAL, "3a"), "text", <<"b">>, NULL, NULL,
                StartTime - 2 * POLL_INTERVAL)
OldImageRow == Row(nowId(StartTime - 3 * POLL_INTERVAL, "3a"), "image", NULL,
                   <<"h2", 9000, "x">>, <<"c", ".", "p">>, StartTime - 3 * POLL_INTERVAL)
PersistedStores == { {}, { OldRow }, { OldRow, OlderRow } }

\* the process has started, in a packaged build, on one of the given stores
InitOn(stores) ==
  /\ rev \in Revisions
  /\ now = StartTime
  /\ clipText = <<>>
  /\ clipImg = NoImage
  /\ clips \in stores
  /\ lastText = <<>>
  /\ lastImageSig = NoSig
  /\ lastSeenTick = 0
  /\ last = Did("start", FALSE, "none", FALSE)
  /\ ticks = 0
  /\ copies = 0
  /\ edits = 0
  /\ emittedSinceWrite = <<>>
  /\ recopiedAt = 0
  /\ phase = "running"
  /\ settings = seedDefaults(rev, NoSettings)
  /\ schema = migrate(rev, {})
  /\ restarts = 0
  /\ answer = NoAnswer
  /\ reply = "none"
  /\ seen = clips
  /\ packaged = TRUE
  /\ shown = ~packaged
  /\ interaction = NoLocks
  /\ stack = NoCall

\* everything but the kind of build
InitState ==
  /\ rev \in Revisions
  /\ now = StartTime
  /\ clipText = <<>>
  /\ clipImg = NoImage
  /\ clips \in PersistedStores
  /\ lastText = <<>>
  /\ lastImageSig = NoSig
  /\ lastSeenTick = 0
  /\ last = Did("start", FALSE, "none", FALSE)
  /\ ticks = 0
  /\ copies = 0
  /\ edits = 0
  /\ emittedSinceWrite = <<>>
  /\ recopiedAt = 0
  /\ phase = "running"
  /\ settings = seedDefaults(rev, NoSettings)
  /\ schema = migrate(rev, {})
  /\ restarts = 0
  /\ answer = NoAnswer
  /\ reply = "none"
  /\ seen = clips
  /\ interaction = NoLocks
  /\ stack = NoCall

\* a packaged build: its window is created hidden
Init ==
  /\ InitState
  /\ packaged = TRUE
  /\ shown = ~packaged

----------------------------------------------------------------------------
(* The poller *)

\* a comparison that forgets the last known text
TextIsNew_always(trimmed, lt) == trimmed # <<>>

\* v1: `trimmed && trimmed !== lastText`
TextIsNew(trimmed, lt) == trimmed # <<>> /\ trimmed # lt

\* an image check that forgets the last known signature
ImageIsNew_noSigCheck(png, ls) ==
  /\ png # NoImage
  /\ png[2] >= PNG_FLOOR

\* v1: the image is present, passes the size floor and its signature differs
ImageIsNew(png, ls) ==
  /\ png # NoImage
  /\ png[2] >= PNG_FLOOR
  /\ sigFromPng(png) # NoSig
  /\ sigFromPng(png) # ls

Outcome(lt, ls, S, emit) ==
  [ lastText |-> lt, lastImageSig |-> ls, clips |-> S, emit |-> emit ]

\* a tick whose text branch does not return: it goes on to the image
Sample_noReturn(text, png, lt, ls, S, tick, r, fn) ==
  LET trimmed == Trim(text)
      fileName == IF fn = NULL THEN defaultImageName(tick) ELSE fn
      S1 == IF TextIsNew(trimmed, lt)
            THEN insertTextClip(S, trimmed, nowId(tick, r), tick) ELSE S
      lt1 == IF TextIsNew(trimmed, lt) THEN trimmed ELSE lt
  IN  IF ImageIsNew(png, ls)
      THEN Outcome(lt1, sigFromPng(png),
                   insertImageClip(S1, png, fileName, nowId(tick + 1, r), tick), "image")
      ELSE Outcome(lt1, ls, S1, IF TextIsNew(trimmed, lt) THEN "text" ELSE "none")

\* v1: what an accepted tick of pollClipboard does: text first, image second
Sample(text, png, lt, ls, S, tick, r, fn) ==
  LET trimmed == Trim(text)
      fileName == IF fn = NULL THEN defaultImageName(tick) ELSE fn
  IN  IF TextIsNew(trimmed, lt)
      THEN Outcome(trimmed, ls, insertTextClip(S, trimmed, nowId(tick, r), tick), "text")
      ELSE IF ImageIsNew(png, ls)
      THEN Outcome(lt, sigFromPng(png),
                   insertImageClip(S, png, fileName, nowId(tick, r), tick), "image")
      ELSE Outcome(lt, ls, S, "none")

\* records the poller has emitted since the latest clipboard write
Emitted(emit) ==
  emittedSinceWrite' = IF emit = "none" THEN emittedSinceWrite
                       ELSE Append(emittedSinceWrite, emit)

\* v1: the setInterval callback of pollClipboard, fired d ms after the latest event
pollClipboard(d, r, fn) ==
  LET tick == now + d
      out == Sample(clipText, clipImg, lastText, lastImageSig, clips, tick, r, fn)
  IN
  /\ rev = "v1"
  /\ Events < MaxEvents
  /\ ticks' = ticks + 1
  /\ now' = tick
  /\ phase \in { "running", "quitting" }
  /\ UNCHANGED <<rev, clipText, clipImg, copies, edits, recopiedAt, process, answer, window, stack>>
  /\ reply' = "none"
  /\ IF tick - lastSeenTick < MIN_GAP
     THEN /\ last' = Did("poll", FALSE, "none", FALSE)
          /\ UNCHANGED <<clips, lastText, lastImageSig, lastSeenTick, emittedSinceWrite, seen>>
     ELSE /\ lastSeenTick' = tick
          /\ lastText' = out.lastText
          /\ lastImageSig' = out.lastImageSig
          /\ clips' = out.clips
          /\ last' = Did("poll", TRUE, out.emit, out.emit # "none")
          /\ Emitted(out.emit)
          /\ seen' = IF out.emit # "none" THEN notifyHistoryUpdated(clips, clips') ELSE seen

\* v3: the setInterval callback of pollClipboardStart
pollClipboardStart(d, r) ==
  LET tick == now + d
      trimmed == Trim(clipText)
      img == clipImg
      h == imageHash(img)
  IN
  /\ rev = "v3"
  /\ Events < MaxEvents
  /\ ticks' = ticks + 1
  /\ now' = tick
  /\ phase \in { "running", "quitting" }
  /\ UNCHANGED <<rev, clipText, clipImg, copies, edits, lastSeenTick, recopiedAt,
                 process, answer, window, stack>>
  /\ reply' = "none"
  /\ IF trimmed # <<>> /\ trimmed # lastText
     THEN /\ lastText' = trimmed
          /\ clips' = insertClipText(clips, trimmed, nowId(tick, r), tick)
          /\ last' = Did("poll", TRUE, "text", TRUE)
          /\ Emitted("text")
          /\ seen' = notifyHistoryUpdated(clips, clips')
          /\ UNCHANGED lastImageSig
     ELSE IF img # NoImage /\ h # NoSig /\ h # lastImageSig
     THEN /\ lastImageSig' = h
          /\ clips' = insertClipImage(clips, img, <<"clipboard-image.png">>,
                                      nowId(tick, r), tick)
          /\ last' = Did("poll", TRUE, "image", TRUE)
          /\ Emitted("image")
          /\ seen' = notifyHistoryUpdated(clips, clips')
          /\ UNCHANGED lastText
     ELSE /\ last' = Did("poll", TRUE, "none", FALSE)
          /\ UNCHANGED <<clips, lastText, lastImageSig, emittedSinceWrite, seen>>

----------------------------------------------------------------------------
(* The OS clipboard *)

\* a write repeats the previous one when it puts the same non-empty text again
Recopied(raw) ==
  IF Trim(raw) # <<>> /\ Trim(raw) = Trim(clipText) THEN now + CopyGap ELSE 0

\* another application copies: one write that sets the text slot, the image
\* slot, or both, some time after the latest event
ExternalCopy(raw, img) ==
  /\ Events < MaxEvents
  /\ copies' = copies + 1
  /\ clipText' = raw
  /\ clipImg' = img
  /\ last' = Did("copy", FALSE, "none", FALSE)
  /\ emittedSinceWrite' = <<>>
  /\ recopiedAt' = Recopied(raw)
  /\ reply' = "none"
  /\ UNCHANGED <<rev, now, clips, lastText, lastImageSig, lastSeenTick, ticks, edits,
                 process, answer, seen, window, stack>>

\* ipcMain.handle("set-clipboard") / ("setClipboard"): the user copies an item
\* of the history (the payload is the text or the image of a stored record).  writeText and writeImage replace the clipboard's content;
\* the PNG read back after writeImage is whatever the re-encoding gives.
set_clipboard(kind, text, valid, enc) ==
  /\ Events < MaxEvents
  /\ phase = "running"
  /\ copies' = copies + 1
  /\ UNCHANGED <<rev, now, clips, lastText, lastImageSig, lastSeenTick, ticks, edits,
                 process, answer, seen, window, stack>>
  /\ IF kind = "text"
     THEN /\ clipText' = text
          /\ clipImg' = NoImage
          /\ last' = Did("set-clipboard-text", FALSE, "none", FALSE)
          /\ emittedSinceWrite' = <<>>
          /\ recopiedAt' = Recopied(text)
          /\ reply' = returned(rev, TRUE)
     ELSE IF ~valid
     THEN /\ last' = Did("set-clipboard-rejected", FALSE, "none", FALSE)
          /\ reply' = returned(rev, FALSE)
          /\ UNCHANGED <<clipText, clipImg, emittedSinceWrite, recopiedAt>>
     ELSE /\ clipText' = <<>>
          /\ clipImg' = enc
          /\ last' = Did("set-clipboard-image", FALSE, "none", FALSE)
          /\ emittedSinceWrite' = <<>>
          /\ recopiedAt' = 0
          /\ reply' = returned(rev, TRUE)

----------------------------------------------------------------------------
(* IPC handlers that mutate the store.  Each one runs its UPDATE / DELETE
   and then sends history-updated, whether or not a row matched. *)

Ids == { c.id : c \in clips } \cup { MissingId }

Edited(op) ==
  /\ Events < MaxEvents
  /\ phase = "running"
  /\ edits' = edits + 1
  /\ last' = Did(op, FALSE, "none", TRUE)
  /\ reply' = returned(rev, TRUE)
  /\ seen' = notifyHistoryUpdated(clips, clips')
  /\ UNCHANGED <<rev, now, clipText, clipImg, lastText, lastImageSig,
                 lastSeenTick, ticks, copies, emittedSinceWrite, recopiedAt,
                 process, answer, window, stack>>

\* an UPDATE without `AND kind='text'`
update_clip_text_anyKind(id, textRaw) ==
  LET text == Trim(textRaw) IN
  /\ rev = "v1"
  /\ clips' = { IF c.id = id THEN [c EXCEPT !.text = text] ELSE c : c \in clips }
  /\ Edited("update-clip-text")

\* v1: ipcMain.handle("update-clip-text")
update_clip_text(id, textRaw) ==
  LET text == Trim(textRaw) IN
  /\ rev = "v1"
  /\ clips' = { IF c.id = id /\ c.kind = "text" THEN [c EXCEPT !.text = text] ELSE c
                : c \in clips }
  /\ Edited("update-clip-text")

\* v3: ipcMain.handle("updateClipText")
updateClipText(id, textRaw) ==
  LET t == Trim(textRaw) IN
  /\ rev = "v3"
  /\ clips' = { IF c.id = id /\ c.kind = "text"
                THEN [c EXCEPT !.text = t, !.updatedAt = now] ELSE c
                : c \in clips }
  /\ Edited("update-clip-text")

\* an UPDATE without `AND kind='image'`
rename_clip_anyKind(id, nameRaw) ==
  LET name == Trim(nameRaw) IN
  /\ rev = "v1"
  /\ clips' = { IF c.id = id THEN [c EXCEPT !.imageName = name] ELSE c : c \in clips }
  /\ Edited("rename-clip")

\* v1: ipcMain.handle("rename-clip")
rename_clip(id, nameRaw) ==
  LET name == Trim(nameRaw) IN
  /\ rev = "v1"
  /\ clips' = { IF c.id = id /\ c.kind = "image" THEN [c EXCEPT !.imageName = name] ELSE c
                : c \in clips }
  /\ Edited("rename-clip")

\* v3: ipcMain.handle("renameClip")
renameClip(id, nameRaw) ==
  LET n == Trim(nameRaw) IN
  /\ rev = "v3"
  /\ clips' = { IF c.id = id /\ c.kind = "image"
                THEN [c EXCEPT !.imageName = n, !.updatedAt = now] ELSE c
                : c \in clips }
  /\ Edited("rename-clip")

\* a handler that stamps the record it tags
set_tags_stamping(id, tags) ==
  /\ rev = "v1"
  /\ clips' = { IF c.id = id THEN [c EXCEPT !.tags = tags, !.createdAt = now] ELSE c
                : c \in clips }
  /\ Edited("set-tags")

\* v1: ipcMain.handle("set-tags")
set_tags(id, tags) ==
  /\ rev = "v1"
  /\ clips' = { IF c.id = id THEN [c EXCEPT !.tags = tags] ELSE c : c \in clips }
  /\ Edited("set-tags")

\* v3: ipcMain.handle("setTags")
setTags(id, tags) ==
  /\ rev = "v3"
  /\ clips' = { IF c.id = id THEN [c EXCEPT !.tags = tags, !.updatedAt = now] ELSE c
                : c \in clips }
  /\ Edited("set-tags")

\* an UPDATE that lost its WHERE clause
toggle_pin_noWhere(id) ==
  LET r == { c \in clips : c.id = id }
      next == IF r # {} /\ (CHOOSE c \in r : TRUE).pinned # 0 THEN 0 ELSE 1
  IN
  /\ clips' = { [c EXCEPT !.pinned = next] : c \in clips }
  /\ Edited("toggle-pin")

\* ipcMain.handle("toggle-pin") / ("togglePin")
toggle_pin(id) ==
  LET r == { c \in clips : c.id = id }
      next == IF r # {} /\ (CHOOSE c \in r : TRUE).pinned # 0 THEN 0 ELSE 1
  IN
  /\ clips' = { IF c.id = id THEN [c EXCEPT !.pinned = next] ELSE c : c \in clips }
  /\ Edited("toggle-pin")

\* ipcMain.handle("delete-clip") / ("deleteClip")
delete_clip(id) ==
  /\ clips' = { c \in clips : c.id # id }
  /\ Edited("delete-clip")

\* a clear-all that also forgets what the poller saw last
clear_all_forgetting ==
  /\ clips' = {}
  /\ Events < MaxEvents
  /\ phase = "running"
  /\ edits' = edits + 1
  /\ last' = Did("clear-all", FALSE, "none", TRUE)
  /\ reply' = returned(rev, TRUE)
  /\ seen' = notifyHistoryUpdated(clips, clips')
  /\ lastText' = <<>>
  /\ lastImageSig' = NoSig
  /\ UNCHANGED <<rev, now, clipText, clipImg, lastSeenTick, ticks, copies,
                 emittedSinceWrite, recopiedAt, process, answer, window, stack>>

\* ipcMain.handle("clear-all") / ("clearAll")
clear_all ==
  /\ clips' = {}
  /\ Edited("clear-all")

\* colours the UI may send
EditColors == { <<" ", "#", "f">> }
ColorColumns == { "color", "borderColor", "bgColor" }

\* part_005:1-590: ipcMain.handle("set-clip-color") / ("set-clip-border-color")
\* / ("set-clip-bg-color")
set_clip_color(id, column, colorRaw) ==
  LET color == Trim(colorRaw) IN
  /\ rev = "v1"
  /\ clips' = { IF c.id = id THEN [c EXCEPT ![column] = color] ELSE c : c \in clips }
  /\ Edited("set-clip-color")

----------------------------------------------------------------------------
(* get-history *)

\* ipcMain.handle("get-history") / ("getHistory"), followed by the renderer's
\* refresh(q) and its local filter
get_history(query) ==
  /\ phase = "running"
  /\ LET items == getHistory(clips, query, rev)
     IN  answer' = [ query |-> query, items |-> items, visible |-> visible(items, query) ]
  /\ last' = Did("get-history", FALSE, "none", FALSE)
  /\ reply' = "items"
  /\ UNCHANGED <<rev, now, clipText, clipImg, clips, lastText, lastImageSig, lastSeenTick,
                 ticks, copies, edits, emittedSinceWrite, recopiedAt, process, seen, window, stack>>

----------------------------------------------------------------------------
(* Specification *)

Tick ==
  \E r \in RandSuffixes :
    \/ \E d \in TickDelays, fn \in FileNames : pollClipboard(d, r, fn)
    \/ pollClipboardStart(POLL_INTERVAL, r)

ClipboardWrite ==
  \/ \E raw \in RawTexts, img \in Images \cup { NoImage } : ExternalCopy(raw, img)
  \/ \E c \in TextRows(clips) : set_clipboard("text", c.text, TRUE, NoImage)
  \/ \E c \in ImageRows(clips), enc \in Images : set_clipboard("image", <<>>, TRUE, enc)
  \/ \E c \in ImageRows(clips) : set_clipboard("image", <<>>, FALSE, NoImage)

Mutation ==
  \E id \in Ids :
    \/ \E text \in EditTexts : update_clip_text(id, text) \/ updateClipText(id, text)
    \/ \E name \in EditNames : rename_clip(id, name) \/ renameClip(id, name)
    \/ \E tags \in TagLists : set_tags(id, tags) \/ setTags(id, tags)
    \/ toggle_pin(id)
    \/ delete_clip(id)
    \/ clear_all

Next == Tick \/ ClipboardWrite \/ Mutation

Spec == Init /\ [][Next]_vars

----------------------------------------------------------------------------
(* Ticks in which a call throws: a clipboard read, or a statement of the
   store insert.  "read": clipboard.readText / readImage throws; "select":
   the first statement of the insert throws; "insert": its INSERT throws. *)

Faults == { "read", "select", "insert" }

\* v1: the store after insertTextClip threw at statement `at`: the DELETE of
\* the record with the same text has run when the INSERT throws
insertTextClip_throws(S, textRaw, at) ==
  LET text == Trim(textRaw)
      existing == { c \in TextRows(S) : c.text = text }
  IN  IF at = "insert" /\ existing # {} THEN S \ { FirstRow(existing) } ELSE S

\* v1: the store after insertImageClip threw at statement `at`
insertImageClip_throws(S, png, at) ==
  LET sig == dataUrlSig(png)
      recent == Newest(ImageRows(S), DEDUP_WINDOW)
      same == { e \in recent : dataUrlSig(e.imageDataUrl) = sig }
  IN  IF at = "insert" /\ same # {} THEN S \ { NewestRow(same) } ELSE S

\* v1: an accepted tick of pollClipboard in which a call throws; nothing
\* catches the exception, it leaves the timer callback
pollClipboard_throws(d, at) ==
  LET tick == now + d
      trimmed == Trim(clipText)
  IN
  /\ rev = "v1"
  /\ phase \in { "running", "quitting" }
  /\ Events < MaxEvents
  /\ tick - lastSeenTick >= MIN_GAP
  /\ ticks' = ticks + 1
  /\ now' = tick
  /\ lastSeenTick' = tick
  /\ reply' = "none"
  /\ UNCHANGED <<rev, clipText, clipImg, copies, edits, recopiedAt, process, answer,
                 emittedSinceWrite, seen, window, stack>>
  /\ IF at = "read"
     THEN /\ last' = Did("poll-read-threw", TRUE, "none", FALSE)
          /\ UNCHANGED <<clips, lastText, lastImageSig>>
     ELSE /\ last' = Did("poll-store-threw", TRUE, "none", FALSE)
          /\ IF TextIsNew(trimmed, lastText)
             THEN /\ lastText' = trimmed
                  /\ clips' = insertTextClip_throws(clips, trimmed, at)
                  /\ UNCHANGED lastImageSig
             ELSE /\ ImageIsNew(clipImg, lastImageSig)
                  /\ lastImageSig' = sigFromPng(clipImg)
                  /\ clips' = insertImageClip_throws(clips, clipImg, at)
                  /\ UNCHANGED lastText

\* v3: a tick of pollClipboardStart in which a call throws; the try / catch
\* around the body swallows the exception
pollClipboardStart_throws(d, at) ==
  LET tick == now + d
      trimmed == Trim(clipText)
      h == imageHash(clipImg)
  IN
  /\ rev = "v3"
  /\ phase \in { "running", "quitting" }
  /\ Events < MaxEvents
  /\ at # "select"
  /\ ticks' = ticks + 1
  /\ now' = tick
  /\ reply' = "none"
  /\ UNCHANGED <<rev, clipText, clipImg, clips, copies, edits, lastSeenTick, recopiedAt,
                 process, answer, emittedSinceWrite, seen, window, stack>>
  /\ IF at = "read"
     THEN /\ last' = Did("poll-read-caught", TRUE, "none", FALSE)
          /\ UNCHANGED <<lastText, lastImageSig>>
     ELSE /\ last' = Did("poll-store-caught", TRUE, "none", FALSE)
          /\ IF trimmed # <<>> /\ trimmed # lastText
             THEN /\ lastText' = trimmed
                  /\ UNCHANGED lastImageSig
             ELSE /\ clipImg # NoImage /\ h # NoSig /\ h # lastImageSig
                  /\ lastImageSig' = h
                  /\ UNCHANGED lastText

FaultyTick ==
  \E at \in Faults :
    \/ \E d \in TickDelays : pollClipboard_throws(d, at)
    \/ pollClipboardStart_throws(POLL_INTERVAL, at)

OtherApplication ==
  \E raw \in RawTexts, img \in Images \cup { NoImage } : ExternalCopy(raw, img)

NextFaults == Tick \/ FaultyTick \/ OtherApplication

SpecFaults == Init /\ [][NextFaults]_vars

----------------------------------------------------------------------------
(* A misbehaving scheduler: the interval may fire early in every revision *)

EarlyFiring == \E r \in RandSuffixes : pollClipboardStart(EarlyFire, r)

NextTimer == Tick \/ EarlyFiring \/ OtherApplication

SpecTimer == Init /\ [][NextTimer]_vars

----------------------------------------------------------------------------
(* Image inserts into histories that hold more Image records than the
   de-dup looks at *)

\* the image another application copies: same first bytes and length as the
\* stored duplicates, other bytes after them
CopiedImage == <<"h2", 9000, "x">>

\* a history of n Image records inserted one after the other and one Text
\* record; the records whose rank by age (1: newest) is in M have the
\* signature of CopiedImage
ImageStore(n, M) ==
  { Row(nowId(i, "3a"), "image", NULL,
        IF (n + 1 - i) \in M THEN <<"h2", 9000, "y">> ELSE <<"h3", 9000 + i, "x">>,
        <<"c", ".", "p">>, i) : i \in 1..n }
  \cup { OldRow }

\* where the duplicates are: none, the newest, the last of the window, the
\* first outside it, two inside, one on each side, two outside
DuplicateRanks ==
  { {}, { 1 }, { DEDUP_WINDOW }, { DEDUP_WINDOW + 1 }, { 5, 10 },
    { DEDUP_WINDOW, DEDUP_WINDOW + 1 }, { DEDUP_WINDOW + 1, MaxImages } }

ImageStores ==
  { ImageStore(n, M) : n \in { DEDUP_WINDOW - 1, DEDUP_WINDOW, MaxImages },
                       M \in DuplicateRanks }

InitImages == InitOn(ImageStores)

ImageCopy == \E img \in Images : ExternalCopy(<<>>, img)

NextImages == Tick \/ ImageCopy

SpecImages == InitImages /\ [][NextImages]_vars

----------------------------------------------------------------------------
(* The process: shutdown, start, and the handlers that write settings *)

Lifecycle(op) ==
  /\ Events < MaxEvents
  /\ restarts' = restarts + 1
  /\ last' = Did(op, FALSE, "none", FALSE)

\* app.on("will-quit"): unregisters the global shortcuts; the interval armed
\* by pollClipboard / pollClipboardStart is not cleared
will_quit ==
  /\ phase = "running"
  /\ phase' = "quitting"
  /\ Lifecycle("will-quit")
  /\ reply' = "none"
  /\ UNCHANGED <<rev, now, clipText, clipImg, clips, lastText, lastImageSig, lastSeenTick,
                 ticks, copies, edits, emittedSinceWrite, recopiedAt, settings, schema,
                 answer, seen, window, stack>>

\* the process ends (after will-quit, or killed): its timer ends with it
process_exit ==
  /\ phase \in { "running", "quitting" }
  /\ phase' = "stopped"
  /\ Lifecycle("exit")
  /\ reply' = "none"
  /\ shown' = FALSE
  /\ UNCHANGED <<rev, now, clipText, clipImg, clips, lastText, lastImageSig, lastSeenTick,
                 ticks, copies, edits, emittedSinceWrite, recopiedAt, settings, schema,
                 answer, seen, interaction, packaged, stack>>

\* the process starts as revision r on the database of the previous run: the
\* module's variables are initialised and app.whenReady() calls dbInit()
dbInit(r) ==
  /\ phase = "stopped"
  /\ rev = "v3" => r = "v3"
  /\ phase' = "starting"
  /\ rev' = r
  /\ settings' = seedDefaults(r, settings)
  /\ schema' = migrate(r, schema)
  /\ lastText' = <<>>
  /\ lastImageSig' = NoSig
  /\ lastSeenTick' = 0
  /\ answer' = NoAnswer
  /\ seen' = clips
  /\ interaction' = NoLocks
  /\ Lifecycle("dbInit")
  /\ reply' = "none"
  /\ UNCHANGED <<now, clipText, clipImg, clips, ticks, copies, edits,
                 emittedSinceWrite, recopiedAt, shown, packaged, stack>>

BoolStr(b) == IF b THEN <<"true">> ELSE <<"false">>

\* normalizeAccelerator: trim, drop all whitespace, drop one leading and one
\* trailing "+"
normalizeAccelerator(raw) ==
  LET packed == SelectSeq(Trim(raw), LAMBDA c : ~IsSpace(c))
      headless == IF packed # <<>> /\ Head(packed) = "+" THEN Tail(packed) ELSE packed
  IN  IF headless # <<>> /\ headless[Len(headless)] = "+"
      THEN SubSeq(headless, 1, Len(headless) - 1)
      ELSE headless

\* the rest of app.whenReady(): createWindow, setupIPC, the poll timer, the
\* global shortcut.  v3 first writes back the login-item state the OS reports
\* and falls back to the default shortcut when registration fails.
whenReady(registered, openAtLogin) ==
  LET applied == setSetting(settings, "startAtLogin", BoolStr(openAtLogin))
      accel == normalizeAccelerator(getSetting(applied, "popupShortcut"))
  IN
  /\ phase = "starting"
  /\ phase' = "running"
  /\ shown' = ~packaged
  /\ settings' = IF rev = "v1" THEN settings
                 ELSE IF accel = <<>> \/ ~registered
                 THEN setSetting(applied, "popupShortcut", DEFAULT_SHORTCUT)
                 ELSE applied
  /\ last' = Did("whenReady", FALSE, "none", FALSE)
  /\ reply' = "none"
  /\ UNCHANGED <<rev, now, clipText, clipImg, clips, lastText, lastImageSig, lastSeenTick,
                 ticks, copies, edits, emittedSinceWrite, recopiedAt, schema, restarts,
                 answer, seen, interaction, packaged, stack>>

\* accelerators the settings form may send
Accelerators == { <<>>, <<" ", "Alt+V">>, <<"+">> }

\* a handler that stores the accelerator before it tries to register it
set_popup_shortcut_eager(accelerator, registered) ==
  LET accel == Trim(accelerator) IN
  /\ rev = "v1"
  /\ phase = "running"
  /\ Lifecycle("set-popup-shortcut")
  /\ reply' = IF accel = <<>> \/ ~registered THEN "{ok:false}" ELSE "{ok:true}"
  /\ settings' = IF accel = <<>> THEN settings
                 ELSE setSetting(settings, "popupShortcut", accel)
  /\ UNCHANGED <<rev, now, clipText, clipImg, clips, lastText, lastImageSig, lastSeenTick,
                 ticks, copies, edits, emittedSinceWrite, recopiedAt, phase, schema,
                 answer, seen, window, stack>>

\* v1: ipcMain.handle("set-popup-shortcut")
set_popup_shortcut(accelerator, registered) ==
  LET accel == Trim(accelerator) IN
  /\ rev = "v1"
  /\ phase = "running"
  /\ Lifecycle("set-popup-shortcut")
  /\ IF accel = <<>> \/ ~registered
     THEN /\ reply' = "{ok:false}"
          /\ UNCHANGED settings
     ELSE /\ reply' = "{ok:true}"
          /\ settings' = setSetting(settings, "popupShortcut", accel)
  /\ UNCHANGED <<rev, now, clipText, clipImg, clips, lastText, lastImageSig, lastSeenTick,
                 ticks, copies, edits, emittedSinceWrite, recopiedAt, phase, schema,
                 answer, seen, window, stack>>

\* part_005: ipcMain.handle("set-popup-shortcut") / ("setPopupShortcut"), with
\* setGlobalShortcut: the accelerator is normalised, registered, then stored
setPopupShortcut(accelerator, registered) ==
  LET accel == normalizeAccelerator(accelerator) IN
  /\ phase = "running"
  /\ Lifecycle("set-popup-shortcut")
  /\ IF accel = <<>> \/ ~registered
     THEN /\ reply' = "{ok:false}"
          /\ UNCHANGED settings
     ELSE /\ reply' = "{ok:true}"
          /\ settings' = setSetting(settings, "popupShortcut", accel)
  /\ UNCHANGED <<rev, now, clipText, clipImg, clips, lastText, lastImageSig, lastSeenTick,
                 ticks, copies, edits, emittedSinceWrite, recopiedAt, phase, schema,
                 answer, seen, window, stack>>

\* savePartialSettings: each field that is present is written as a string
RECURSIVE savePartialSettings(_, _, _)
savePartialSettings(st, partial, keys) ==
  IF keys = {} THEN st
  ELSE LET k == CHOOSE x \in keys : TRUE
           v == IF k = "popupShortcut" THEN partial[k]
                ELSE IF k = "lang" THEN (IF partial[k] = <<"km">> THEN <<"km">> ELSE <<"en">>)
                ELSE IF k = "closeOnCopyDelayMs" THEN <<ToString(partial[k])>>
                ELSE IF k = "theme" THEN partial[k]
                ELSE BoolStr(partial[k])
       IN  savePartialSettings(setSetting(st, k, v), partial, keys \ { k })

\* partial settings the settings form may send
Partials ==
  { [ popupShortcut |-> a ] : a \in Accelerators }
  \cup { [ lang |-> <<"km">>, closeOnBlur |-> TRUE ] }

\* v3: ipcMain.handle("setSettings")
setSettings(partial) ==
  /\ rev = "v3"
  /\ phase = "running"
  /\ Lifecycle("setSettings")
  /\ settings' = savePartialSettings(settings, partial, DOMAIN partial)
  /\ reply' = "{ok:true}"
  /\ UNCHANGED <<rev, now, clipText, clipImg, clips, lastText, lastImageSig, lastSeenTick,
                 ticks, copies, edits, emittedSinceWrite, recopiedAt, phase, schema,
                 answer, seen, window, stack>>

Shutdown == will_quit \/ process_exit

Startup ==
  \/ \E r \in Revisions : dbInit(r)
  \/ \E registered \in BOOLEAN, openAtLogin \in BOOLEAN : whenReady(registered, openAtLogin)

SettingsWrite ==
  \/ \E a \in Accelerators, registered \in BOOLEAN : set_popup_shortcut(a, registered)
  \/ \E a \in Accelerators, registered \in BOOLEAN : setPopupShortcut(a, registered)
  \/ \E partial \in Partials : setSettings(partial)

NextLifecycle == Tick \/ OtherApplication \/ Shutdown \/ Startup \/ SettingsWrite

SpecLifecycle == Init /\ [][NextLifecycle]_vars

----------------------------------------------------------------------------
(* The popup window: the global shortcut shows it, the renderer hides it and
   reports its interaction locks, and it may lose the focus *)

\* showPopupNearCursor: the global shortcut, the tray menu or "showPopup"
showPopupNearCursor ==
  /\ phase = "running"
  /\ shown' = TRUE
  /\ Lifecycle("show-popup")
  /\ reply' = "none"
  /\ UNCHANGED <<rev, now, clipText, clipImg, clips, lastText, lastImageSig, lastSeenTick,
                 ticks, copies, edits, emittedSinceWrite, recopiedAt, phase, settings,
                 schema, answer, seen, interaction, packaged, stack>>

\* ipcMain.handle("hide-popup") / ("hidePopup")
hidePopup ==
  /\ phase = "running"
  /\ shown' = FALSE
  /\ Lifecycle("hide-popup")
  /\ reply' = returned(rev, TRUE)
  /\ UNCHANGED <<rev, now, clipText, clipImg, clips, lastText, lastImageSig, lastSeenTick,
                 ticks, copies, edits, emittedSinceWrite, recopiedAt, phase, settings,
                 schema, answer, seen, interaction, packaged, stack>>

\* lock reports the renderer may send: one lock set or cleared
InteractionReports == { [ x \in { k } |-> b ] : k \in Locks, b \in BOOLEAN }

\* v3: ipcMain.handle("setInteractionState"): Object.assign(interaction, partial)
setInteractionState(partial) ==
  /\ rev = "v3"
  /\ phase = "running"
  /\ interaction' = [ k \in Locks |-> IF k \in DOMAIN partial THEN partial[k]
                                       ELSE interaction[k] ]
  /\ Lifecycle("setInteractionState")
  /\ reply' = "{ok:true}"
  /\ UNCHANGED <<rev, now, clipText, clipImg, clips, lastText, lastImageSig, lastSeenTick,
                 ticks, copies, edits, emittedSinceWrite, recopiedAt, phase, settings,
                 schema, answer, seen, shown, packaged, stack>>

\* getAppSettings().closeOnBlur
closeOnBlur(st) ==
  (IF getSetting(st, "closeOnBlur") = NoValue THEN <<"false">>
   ELSE getSetting(st, "closeOnBlur")) = <<"true">>

\* a lock test that knows nothing of the search box
isInteracting_butSearch(i) ==
  i["isPickingColor"] \/ i["isModalOpen"] \/ i["isSettingsOpen"] \/ i["isRecordingShortcut"]

\* the lock test of the blur handler
isInteracting(i) ==
  i["isPickingColor"] \/ i["isTypingSearch"] \/ i["isModalOpen"] \/ i["isSettingsOpen"]
  \/ i["isRecordingShortcut"]

\* win.on("blur"): the visible popup loses the focus
blur ==
  /\ phase = "running"
  /\ shown
  /\ shown' = IF ~packaged THEN shown
              ELSE IF rev = "v1" THEN FALSE
              ELSE IF ~closeOnBlur(settings) THEN shown
              ELSE IF isInteracting(interaction) THEN shown
              ELSE FALSE
  /\ Lifecycle("blur")
  /\ reply' = "none"
  /\ UNCHANGED <<rev, now, clipText, clipImg, clips, lastText, lastImageSig, lastSeenTick,
                 ticks, copies, edits, emittedSinceWrite, recopiedAt, phase, settings,
                 schema, answer, seen, interaction, packaged, stack>>

PopupEvent ==
  \/ showPopupNearCursor
  \/ hidePopup
  \/ blur
  \/ \E partial \in InteractionReports : setInteractionState(partial)

\* a packaged build or a development run
InitWindow ==
  /\ InitState
  /\ packaged \in BOOLEAN
  /\ shown = ~packaged

NextWindow == PopupEvent \/ SettingsWrite

SpecWindow == InitWindow /\ [][NextWindow]_vars

----------------------------------------------------------------------------
(* The poll tick statement by statement.  A tick that finds something new
   assigns the last known value, then runs the statements of the insert
   (DELETE of the duplicate if there is one, INSERT), then sends
   history-updated.  The event loop starts a callback (a timer callback or an
   IPC handler) only when no callback is on the call stack, or the one in
   progress is suspended at an await. *)

\* the statements of a poll tick at which its callback awaits: the callbacks
\* and the store calls are synchronous
AwaitPoints_afterDelete == { "deleted" }
AwaitPoints == {}

Dispatchable == stack.at = "idle" \/ stack.at \in AwaitPoints

\* v3: what a tick of pollClipboardStart does: text first, image second
SampleStart(text, img, lt, lh, S, tick, r) ==
  LET trimmed == Trim(text)
      h == imageHash(img)
  IN  IF trimmed # <<>> /\ trimmed # lt
      THEN Outcome(trimmed, lh, insertClipText(S, trimmed, nowId(tick, r), tick), "text")
      ELSE IF img # NoImage /\ h # NoSig /\ h # lh
      THEN Outcome(lt, h, insertClipImage(S, img, <<"clipboard-image.png">>,
                                          nowId(tick, r), tick), "image")
      ELSE Outcome(lt, lh, S, "none")

\* the timer callback starts and finds something new: the last known value is
\* assigned, the insert has not run yet
poll_begin(d, r, fn) ==
  LET tick == now + d
      out == IF rev = "v1"
             THEN Sample(clipText, clipImg, lastText, lastImageSig, clips, tick, r, fn)
             ELSE SampleStart(clipText, clipImg, lastText, lastImageSig, clips, tick, r)
  IN
  /\ Dispatchable
  /\ Events < MaxEvents
  /\ phase \in { "running", "quitting" }
  /\ rev = "v1" => tick - lastSeenTick >= MIN_GAP
  /\ rev = "v3" => (d = POLL_INTERVAL /\ fn = NULL)
  /\ out.emit # "none"
  /\ ticks' = ticks + 1
  /\ now' = tick
  /\ lastSeenTick' = IF rev = "v1" THEN tick ELSE lastSeenTick
  /\ lastText' = out.lastText
  /\ lastImageSig' = out.lastImageSig
  /\ stack' = [ at |-> "begun", delete |-> clips \ out.clips,
                insert |-> out.clips \ clips, emit |-> out.emit ]
  /\ last' = Did("poll-begin", TRUE, "none", FALSE)
  /\ reply' = "none"
  /\ UNCHANGED <<rev, clipText, clipImg, clips, copies, edits, emittedSinceWrite,
                 recopiedAt, process, answer, seen, window>>

\* a statement of the tick in progress
Statement(op) ==
  /\ last' = Did(op, TRUE, "none", FALSE)
  /\ reply' = "none"
  /\ UNCHANGED <<rev, now, clipText, clipImg, lastText, lastImageSig, lastSeenTick,
                 ticks, copies, edits, emittedSinceWrite, recopiedAt, process, answer,
                 seen, window>>

\* DELETE FROM clips WHERE id=? of the duplicate
poll_delete ==
  /\ stack.at = "begun"
  /\ stack.delete # {}
  /\ clips' = clips \ stack.delete
  /\ stack' = [ stack EXCEPT !.at = "deleted" ]
  /\ Statement("poll-delete")

ReadyToInsert ==
  \/ stack.at = "begun" /\ stack.delete = {}
  \/ stack.at = "deleted"

\* INSERT INTO clips
poll_insert ==
  /\ ReadyToInsert
  /\ clips' = clips \cup stack.insert
  /\ stack' = [ stack EXCEPT !.at = "inserted" ]
  /\ Statement("poll-insert")

\* the INSERT throws: the callback ends (v1: the exception leaves it, v3: it
\* is caught), the DELETE stays done
poll_insert_throws ==
  /\ ReadyToInsert
  /\ stack' = NoCall
  /\ Statement(IF rev = "v1" THEN "poll-store-threw" ELSE "poll-store-caught")
  /\ UNCHANGED clips

\* history-updated is sent and the callback returns
poll_notify ==
  /\ stack.at = "inserted"
  /\ stack' = NoCall
  /\ seen' = notifyHistoryUpdated(clips, clips)
  /\ last' = Did("poll", TRUE, stack.emit, TRUE)
  /\ Emitted(stack.emit)
  /\ reply' = "none"
  /\ UNCHANGED <<rev, now, clipText, clipImg, clips, lastText, lastImageSig, lastSeenTick,
                 ticks, copies, edits, recopiedAt, process, answer, window>>

\* a timer callback: one that finds nothing new runs to its return at once
TickStatement ==
  \/ \E r \in RandSuffixes, d \in TickDelays, fn \in FileNames : poll_begin(d, r, fn)
  \/ poll_delete
  \/ poll_insert
  \/ poll_insert_throws
  \/ poll_notify
  \/ Dispatchable /\ Tick /\ last'.emit = "none"

\* queries the renderer sends
ReaderQueries == { <<"a">> }

\* an IPC handler the event loop starts
Handler ==
  /\ Dispatchable
  /\ \/ \E query \in ReaderQueries : get_history(query)
     \/ Mutation

\* another application copies a text or the image of an earlier run
Copy ==
  \/ \E c \in { OldRow, OlderRow } : ExternalCopy(c.text, NoImage)
  \/ ExternalCopy(<<>>, OldImageRow.imageDataUrl)

\* the previous run left a text and an image
InitStatements == InitOn({ { OldRow, OldImageRow } })

NextStatements == TickStatement \/ Handler \/ Copy

SpecStatements == InitStatements /\ [][NextStatements]_vars

----------------------------------------------------------------------------
(* The UI edits the history while the poller runs: every mutation handler,
   the colour handlers of part_005:1-590 included *)

Colouring ==
  \E id \in Ids, column \in ColorColumns, color \in EditColors :
    set_clip_color(id, column, color)

NextEdits == Tick \/ Copy \/ Mutation \/ Colouring

SpecEdits == Init /\ [][NextEdits]_vars

----------------------------------------------------------------------------
(* Queries: get-history asked of stores of several sizes *)

\* records of a small history: a text that contains the reserved word, an
\* image with a display name, a tagged text, a short text
QueryRows ==
  { Row(nowId(10, "3a"), "text", <<"A", "n", " ", "I", "m", "a", "g", "e">>, NULL, NULL, 10),
    Row(nowId(20, "3a"), "image", NULL, <<"h2", 9000, "x">>,
        <<"C", "a", "t", ".", "p", "n", "g">>, 20),
    [ Row(nowId(30, "3a"), "text", <<"h", "e", "l", "l", "o">>, NULL, NULL, 30)
        EXCEPT !.tags = << <<"I", "m", "g">>, <<"x">> >> ],
    Row(nowId(40, "3a"), "text", <<"t", "a">>, NULL, NULL, 40) }

\* the small histories: any of these records, any of them pinned
SmallStores ==
  { { IF c \in P THEN [c EXCEPT !.pinned = 1] ELSE c : c \in S } :
      S \in SUBSET QueryRows, P \in SUBSET QueryRows }

\* a history of n text records copied one after the other, every k-th pinned
BigStore(n, k) ==
  { [ Row(nowId(i, "3a"), "text", <<"t", ToString(i)>>, NULL, NULL, i)
        EXCEPT !.pinned = IF k > 0 /\ i % k = 0 THEN 1 ELSE 0 ] : i \in 1..n }

BigSizes == { HISTORY_LIMIT_V1 + 1, HISTORY_LIMIT_V3 + 1, MaxRows }

QueryStores == SmallStores \cup { BigStore(n, k) : n \in BigSizes, k \in { 0, PinEvery } }

Queries ==
  { <<>>, <<" ">>,
    <<"i", "m", "a", "g", "e">>, <<" ", "I", "M", "A", "G", "E", " ">>,
    <<"c", "a", "t">>, <<"H", "E", "L", "L", "O">>, <<"i", "m", "g", ",", "x">>,
    <<" ", "a">>, <<"t", "3">>, <<"t", "1">> }

InitQuery ==
  /\ rev \in Revisions
  /\ now = StartTime
  /\ clipText = <<>>
  /\ clipImg = NoImage
  /\ clips \in QueryStores
  /\ lastText = <<>>
  /\ lastImageSig = NoSig
  /\ lastSeenTick = 0
  /\ last = Did("start", FALSE, "none", FALSE)
  /\ ticks = 0
  /\ copies = 0
  /\ edits = 0
  /\ emittedSinceWrite = <<>>
  /\ recopiedAt = 0
  /\ phase = "running"
  /\ settings = seedDefaults(rev, NoSettings)
  /\ schema = migrate(rev, {})
  /\ restarts = 0
  /\ answer = NoAnswer
  /\ reply = "none"
  /\ seen = clips
  /\ packaged = TRUE
  /\ shown = ~packaged
  /\ interaction = NoLocks
  /\ stack = NoCall

NextQuery == \E query \in Queries : get_history(query)

SpecQuery == InitQuery /\ [][NextQuery]_vars

----------------------------------------------------------------------------
(* Inserts into histories that hold more records than a query returns *)

\* the large histories, their pinned records tagged, with one Image record
GrownStores ==
  { { IF c.pinned = 1 THEN [ c EXCEPT !.tags = << <<"t">> >> ] ELSE c
      : c \in BigStore(n, PinEvery) } \cup { OldImageRow } : n \in BigSizes }

InitGrown == InitOn(GrownStores)

\* another application copies a new text, the oldest text of the history, or
\* the text of a pinned record
GrownCopy ==
  \E raw \in { <<"a">>, <<"t", "1">>, <<"t", ToString(PinEvery)>> } :
    ExternalCopy(raw, NoImage)

\* the renderer refreshes its list when history-updated arrives
Refresh == last.notify /\ get_history(<<>>)

NextGrown == Tick \/ GrownCopy \/ Refresh

SpecGrown == InitGrown /\ [][NextGrown]_vars

----------------------------------------------------------------------------
(* The poller has captured the text on the clipboard; the clipboard then
   changes and changes back, and the user deletes records *)

\* the record of the text the poller sampled at StartTime
CapturedRow == Row(nowId(StartTime, "3a"), "text", <<"a">>, NULL, NULL, StartTime)

\* the running process right after the tick that captured the clipboard text
\* "a"; the store also holds a text of an earlier run.  Events are counted
\* from here.
InitCaptured ==
  /\ rev \in Revisions
  /\ now = StartTime
  /\ clipText = CapturedRow.text
  /\ clipImg = NoImage
  /\ clips = { OlderRow, CapturedRow }
  /\ lastText = CapturedRow.text
  /\ lastImageSig = NoSig
  /\ lastSeenTick = IF rev = "v1" THEN StartTime ELSE 0
  /\ last = Did("poll", TRUE, "text", TRUE)
  /\ ticks = 0
  /\ copies = 0
  /\ edits = 0
  /\ emittedSinceWrite = <<"text">>
  /\ recopiedAt = 0
  /\ phase = "running"
  /\ settings = seedDefaults(rev, NoSettings)
  /\ schema = migrate(rev, {})
  /\ restarts = 0
  /\ answer = NoAnswer
  /\ reply = "none"
  /\ seen = clips
  /\ packaged = TRUE
  /\ shown = ~packaged
  /\ interaction = NoLocks
  /\ stack = NoCall

\* another application empties the text slot, or copies one of the two texts
Recopy ==
  \E raw \in { <<" ">>, CapturedRow.text, OlderRow.text } : ExternalCopy(raw, NoImage)

\* the renderer lists the history: refresh(q)
Listing == \E query \in { <<>> } : get_history(query)

\* the user deletes a record, or clears the history
Removal == (\E id \in Ids : delete_clip(id)) \/ clear_all

NextCaptured == Tick \/ Recopy \/ Listing \/ Removal

SpecCaptured == InitCaptured /\ [][NextCaptured]_vars

----------------------------------------------------------------------------
(* Properties *)

TickStep == ticks' = ticks + 1
AcceptedTick == TickStep /\ last'.accepted

SameText(S, T) == { c \in TextRows(S) : c.text = T }

\* C1: after set-clipboard wrote a text, the next accepted poll tick performs
\* no store insert or delete and sends no notify.
C1_SelfWriteSuppressed ==
  [][ (rev = "v1" /\ last.op = "set-clipboard-text" /\ AcceptedTick)
      => (clips' = clips /\ ~last'.notify) ]_vars

\* C2: no two Text records have the same exact text value.
C2_UniqueText ==
  \A c1, c2 \in TextRows(clips) : c1.text = c2.text => c1 = c2

\* C3: every Text record's text is non-empty after trimming whitespace.
C3_TextNonEmpty ==
  \A c \in TextRows(clips) : \E k \in 1..Len(c.text) : c.text[k] # " "

\* C4: when the store holds a Text record X with text T and the poller inserts
\* T again, exactly one record with text T is left; it has a new id and
\* createdAt equal to the time of the insert, and no record with X's id remains.
C4_ReplaceOnDuplicate ==
  [][ (rev = "v1" /\ TickStep /\ last'.emit = "text" /\ SameText(clips, lastText') # {})
      => /\ Cardinality(SameText(clips', lastText')) = 1
         /\ \A c \in SameText(clips', lastText') :
              /\ c.createdAt = now'
              /\ c.id \notin { x.id : x \in clips }
         /\ \A x \in SameText(clips, lastText') : x.id \notin { c.id : c \in clips' } ]_vars

\* C5: when the same text was copied twice in a row and a tick has sampled the
\* clipboard since, the store holds exactly one record with that text, and its
\* createdAt is not earlier than the second copy.
C5_IdenticalCopyRefreshes ==
  (rev = "v1" /\ edits = 0 /\ recopiedAt > 0 /\ lastSeenTick > recopiedAt)
  => /\ Cardinality(SameText(clips, Trim(clipText))) = 1
     /\ \A c \in SameText(clips, Trim(clipText)) : c.createdAt >= recopiedAt

\* the clipboard holds what the poller saw last: the trimmed text is the last
\* known text, and the image is absent, below the floor, or has the last known signature
IdenticalContent ==
  /\ Trim(clipText) = lastText
  /\ \/ clipImg = NoImage
     \/ clipImg[2] < PNG_FLOOR
     \/ <<clipImg[1], clipImg[2]>> = lastImageSig

\* C6: a poll tick that samples content identical to the last known content
\* changes neither the store nor the last known text nor the last known image
\* signature, and sends no notify.
C6_IdenticalTickNoOp ==
  [][ (rev = "v1" /\ TickStep /\ IdenticalContent)
      => /\ clips' = clips
         /\ lastText' = lastText
         /\ lastImageSig' = lastImageSig
         /\ ~last'.notify ]_vars

C6_Witness ==
  /\ rev = "v1"
  /\ last = Did("poll", TRUE, "none", FALSE)
  /\ lastText # <<>>
  /\ Trim(clipText) = lastText
  /\ clipImg # NoImage
  /\ <<clipImg[1], clipImg[2]>> = lastImageSig

TextNew == Trim(clipText) # <<>> /\ Trim(clipText) # lastText

ImageNew ==
  /\ clipImg # NoImage
  /\ clipImg[2] >= PNG_FLOOR
  /\ lastImageSig # (IF rev = "v1" THEN <<clipImg[1], clipImg[2]>>
                     ELSE <<clipImg[2], clipImg[1]>>)

\* C7: an accepted tick that finds both the text and the image new emits
\* exactly one record, a Text one, and leaves the last known image signature
\* unchanged, so that the image is still new afterwards; an accepted tick that
\* finds the text not new and the image new emits exactly one Image record.
C7_KindPriority ==
  [][ /\ (AcceptedTick /\ TextNew /\ ImageNew)
         => /\ last'.emit = "text"
            /\ lastImageSig' = lastImageSig
            /\ \E c \in clips' : c.kind = "text" /\ clips' \ clips = { c }
            /\ ~TextNew' /\ ImageNew'
      /\ (AcceptedTick /\ ~TextNew /\ ImageNew)
         => /\ last'.emit = "image"
            /\ \E c \in clips' : /\ c.kind = "image"
                                 /\ c.imageDataUrl = clipImg
                                 /\ clips' \ clips = { c } ]_vars

C7_Witness ==
  /\ emittedSinceWrite = <<"text", "image">>
  /\ last = Did("poll", TRUE, "image", TRUE)
  /\ \E c \in ImageRows(clips) : c.imageDataUrl = clipImg /\ c.createdAt = now

\* C8 as claimed: the poller creates at most one record per clipboard write.
C8_AtMostOnePerWrite == Len(emittedSinceWrite) <= 1

\* C8 as amended: per clipboard write the poller creates at most one record of
\* each kind, the Text one first: at most two records, never two of one kind.
C8_AtMostOnePerKind ==
  emittedSinceWrite \in { <<>>, <<"text">>, <<"image">>, <<"text", "image">> }

C8_Witness ==
  /\ Len(emittedSinceWrite) = 2
  /\ \E c \in TextRows(clips) : c.text = lastText /\ c.createdAt < now
  /\ \E c \in ImageRows(clips) : c.createdAt = now

\* C9: a tick whose clipboard image is below the byte floor creates no Image
\* record and keeps the last known image signature; an accepted tick that
\* examines an image at or above the floor with a new signature creates exactly
\* one Image record; so no Image record holds a payload below the floor.
C9_ImageSizeFloor ==
  [][ TickStep
      => /\ (clipImg # NoImage /\ clipImg[2] < PNG_FLOOR)
            => /\ ImageRows(clips') \subseteq ImageRows(clips)
               /\ lastImageSig' = lastImageSig
         /\ (last'.accepted /\ ~TextNew /\ ImageNew)
            => Cardinality(ImageRows(clips') \ ImageRows(clips)) = 1
         /\ \A c \in ImageRows(clips') : c.imageDataUrl[2] >= PNG_FLOOR ]_vars

\* t is raw without its leading and trailing whitespace
IsTrimOf(t, raw) ==
  /\ t # <<>> => (t[1] # " " /\ t[Len(t)] # " ")
  /\ \E i \in 0..Len(raw) :
       /\ i + Len(t) <= Len(raw)
       /\ SubSeq(raw, i + 1, i + Len(t)) = t
       /\ \A k \in 1..Len(raw) : (k <= i \/ k > i + Len(t)) => raw[k] = " "

\* C10: a tick whose clipboard text is empty after trimming creates no Text
\* record and keeps the last known text; otherwise a Text record the tick
\* creates stores exactly the trimmed text, and so does the last known text.
C10_TextAdmission ==
  [][ TickStep
      => IF IsTrimOf(<<>>, clipText)
         THEN /\ TextRows(clips') \subseteq TextRows(clips)
              /\ lastText' = lastText
         ELSE /\ \A c \in clips' \ clips : c.kind = "text" => IsTrimOf(c.text, clipText)
              /\ lastText' # lastText => IsTrimOf(lastText', clipText) ]_vars

C10_Witness ==
  /\ clipText = <<" ", "a", " ">>
  /\ last = Did("poll", TRUE, "text", TRUE)
  /\ lastText = <<"a">>
  /\ \E c \in TextRows(clips) : c.text = <<"a">> /\ c.createdAt = now

----------------------------------------------------------------------------
(* Properties of the IPC handlers that mutate the store *)

EditStep == edits' = edits + 1

Succeeded(r) == r \in { "true", "{ok:true}" }

\* a handler that takes an id is called with an id no record has
NotFoundCall ==
  \E id \in { MissingId } \ { c.id : c \in clips } :
    \/ delete_clip(id)
    \/ toggle_pin(id)
    \/ \E tags \in TagLists : set_tags(id, tags) \/ setTags(id, tags)
    \/ \E text \in EditTexts : update_clip_text(id, text) \/ updateClipText(id, text)
    \/ \E name \in EditNames : rename_clip(id, name) \/ renameClip(id, name)

\* C15: delete, toggle-pin, set-tags, update-clip-text and rename-clip called
\* with an id that is not in the store leave every record unchanged, create
\* none, and return a success result.
C15_NotFoundIsNoOp ==
  [][ (EditStep /\ NotFoundCall) => (clips' = clips /\ Succeeded(reply')) ]_vars

C15_Witness ==
  /\ last.op = "toggle-pin"
  /\ edits = 1 /\ ticks = 0 /\ copies = 0
  /\ clips = { OldRow, OlderRow }
  /\ Succeeded(reply)

\* C16: a mutation applied to an existing record (toggle pin, set tags, set
\* text, set display name) sets that record's updatedAt to the time of the
\* mutation: every record a mutation handler has altered carries it.
C16_MutationSetsUpdatedAt ==
  [][ (rev = "v3" /\ EditStep) => \A c \in clips' \ clips : c.updatedAt = now ]_vars

----------------------------------------------------------------------------
(* Properties of get-history *)

Answered == last.op = "get-history"

ItemsOf(seq) == { seq[k] : k \in 1..Len(seq) }

\* a ranks before b: pinned first, then newest first
RanksBefore(a, b) ==
  \/ a.pinned = 1 /\ b.pinned = 0
  \/ a.pinned = b.pinned /\ a.createdAt > b.createdAt

IsBlank(t) == \A k \in 1..Len(t) : t[k] = " "

\* C11: a query with an empty token returns at most the configured cap of
\* records (300; 400 in the later revision), every pinned record before every
\* unpinned one, records of equal pinned status newest first, and the records
\* returned are the top-ranked ones of the store.
C11_BoundedOrderedQuery ==
  LET items == answer.items
      cap == IF rev = "v1" THEN 300 ELSE 400
  IN  (Answered /\ IsBlank(answer.query))
      => /\ Len(items) <= cap
         /\ Len(items) = (IF Cardinality(clips) < cap THEN Cardinality(clips) ELSE cap)
         /\ ItemsOf(items) \subseteq clips
         /\ \A k \in 1..(Len(items) - 1) : RanksBefore(items[k], items[k + 1])
         /\ \A c \in clips \ ItemsOf(items) :
              Len(items) > 0 /\ RanksBefore(items[Len(items)], c)

C11_Witness ==
  /\ Answered
  /\ answer.query = <<>>
  /\ Cardinality(clips) = MaxRows
  /\ Len(answer.items) = HistoryLimit(rev)
  /\ answer.items[1].pinned = 1
  /\ answer.items[Len(answer.items)].pinned = 0

\* the spellings of the reserved token
ImageSpellings ==
  { <<i, m, a, g, e>> : i \in {"i", "I"}, m \in {"m", "M"}, a \in {"a", "A"},
                        g \in {"g", "G"}, e \in {"e", "E"} }

IsImageToken(t) == \E w \in ImageSpellings : IsTrimOf(w, t)

\* C12: a query whose token is "image", ignoring case and surrounding
\* whitespace, returns exactly the Image records of the materialized history
\* and no Text record, whatever the texts, names and tags contain; the
\* renderer's local filter shows the same list.
C12_ReservedToken ==
  (Answered /\ IsImageToken(answer.query))
  => /\ answer.items = SelectSeq(selectHistory(clips, rev), LAMBDA it : it.kind = "image")
     /\ \A k \in 1..Len(answer.items) : answer.items[k].kind = "image"
     /\ answer.visible = answer.items

C12_Witness ==
  /\ Answered
  /\ answer.query = <<" ", "I", "M", "A", "G", "E", " ">>
  /\ \E c \in TextRows(clips) : c.text = <<"A", "n", " ", "I", "m", "a", "g", "e">>
  /\ Len(answer.items) = 1
  /\ answer.items[1].kind = "image"

\* the same letter, whatever the case
SameLetter(a, b) ==
  a = b \/ \E u \in 1..Len(UpperCase) : { a, b } = { UpperCase[u], LowerCase[u] }

\* q occurs in s, ignoring case
OccursIn(q, s) ==
  \E i \in 0..(Len(s) - Len(q)) : \A k \in 1..Len(q) : SameLetter(q[k], s[i + k])

\* q occurs in the text, the display name or the comma-joined tags of it
Found(q, it) ==
  \/ OccursIn(q, orEmpty(it.text))
  \/ OccursIn(q, orEmpty(it.imageName))
  \/ OccursIn(q, join(it.tags))

\* C13 as claimed: an empty or whitespace-only token returns the materialized
\* history unfiltered; any other non-reserved token returns a record if and
\* only if the lower-cased token is a substring of its lower-cased text, name
\* or comma-joined tag list.
C13_SubstringFilterRaw ==
  Answered
  => IF IsBlank(answer.query) THEN answer.items = selectHistory(clips, rev)
     ELSE IsImageToken(answer.query)
          \/ answer.items = SelectSeq(selectHistory(clips, rev),
                                      LAMBDA it : Found(answer.query, it))

\* C13 as amended: the token is matched without its surrounding whitespace.
C13_SubstringFilterTrimmed ==
  Answered
  => IF IsBlank(answer.query) THEN answer.items = selectHistory(clips, rev)
     ELSE IsImageToken(answer.query)
          \/ \E q \in { answer.query } \cup { SubSeq(answer.query, i, j) :
                            i \in 1..Len(answer.query), j \in 1..Len(answer.query) } :
               /\ IsTrimOf(q, answer.query)
               /\ answer.items = SelectSeq(selectHistory(clips, rev),
                                           LAMBDA it : Found(q, it))

C13_Witness ==
  /\ Answered
  /\ answer.query = <<"i", "m", "g", ",", "x">>
  /\ Len(answer.items) = 1
  /\ answer.items[1].tags = << <<"I", "m", "g">>, <<"x">> >>
  /\ Cardinality(clips) > 1

----------------------------------------------------------------------------
(* Properties of ticks in which a call throws *)

StoreFailed == last'.op \in { "poll-store-threw", "poll-store-caught" }
ReadFailed == last'.op \in { "poll-read-threw", "poll-read-caught" }

\* C14: a poll tick whose store insert fails does not update the poller's
\* last known text nor its last known image signature, so that the next tick
\* finds the same clipboard content new again.
C14_InsertFailureRetried ==
  [][ (TickStep /\ StoreFailed)
      => /\ lastText' = lastText
         /\ lastImageSig' = lastImageSig
         /\ (TextNew => TextNew')
         /\ (ImageNew => ImageNew') ]_vars

\* C18: a poll tick in which the clipboard read fails leaves the store, the
\* last known text and the last known image signature unchanged, sends no
\* notify and lets no error escape the poller; the timer stays armed.
C18_ReadFailureSwallowed ==
  [][ (TickStep /\ ReadFailed)
      => /\ clips' = clips
         /\ lastText' = lastText
         /\ lastImageSig' = lastImageSig
         /\ ~last'.notify
         /\ seen' = seen
         /\ last'.op # "poll-read-threw"
         /\ phase' = phase ]_vars

----------------------------------------------------------------------------
(* Shutdown and restart *)

DbInitStep == phase = "stopped" /\ phase' = "starting"

\* the columns of a record that exist in both schemas keep their values
SameRecords == clips' = clips

\* C19: once will-quit has been handled, the poll timer is stopped: no tick of
\* the poller runs any more.
C19_NoTickAfterWillQuit == [][ phase = "quitting" => ~TickStep ]_vars

\* C20: dbInit on an existing database leaves every clip record and every
\* stored settings value unchanged; it only adds missing columns and seeds the
\* default of each settings key that is absent.
C20_DbInitPreserves ==
  [][ DbInitStep =>
        /\ SameRecords
        /\ schema \subseteq schema'
        /\ \A k \in DOMAIN settings :
             k \in DOMAIN settings' /\ settings'[k] = settings[k]
        /\ \A k \in DOMAIN settings' \ DOMAIN settings :
             settings'[k] = SettingsDefaults(rev')[k] ]_vars

----------------------------------------------------------------------------
(* The popup window *)

BlurStep == last'.op = "blur"

\* C21: a blur hides the popup only when close-on-blur is enabled and no
\* interaction lock is set: with the setting disabled, or with any lock set,
\* the popup stays as it was.
C21_BlurHidesOnlyWhenAllowed ==
  [][ (rev = "v3" /\ BlurStep)
      => IF settings["closeOnBlur"] = <<"true">> /\ \A k \in Locks : ~interaction[k]
         THEN shown' \in { shown, FALSE }
         ELSE shown' = shown ]_vars

C21_Witness ==
  /\ rev = "v3"
  /\ last.op = "blur"
  /\ packaged
  /\ settings["closeOnBlur"] = <<"true">>
  /\ interaction["isTypingSearch"]
  /\ shown

----------------------------------------------------------------------------
(* Serialization of the store operations *)

ReadStep == last'.op = "get-history"
TickBegins == ticks' = ticks + 1

\* C22: no get-history, no UI mutation and no other poll tick runs while a
\* poll tick is in progress, so a query never returns the store as it is
\* between the DELETE and the INSERT of a replace.
C22_Serialized ==
  [][ /\ (ReadStep \/ EditStep \/ TickBegins) => stack.at = "idle"
      /\ ReadStep => /\ stack.at # "deleted"
                      /\ answer'.items = getHistory(clips, answer'.query, rev) ]_vars

C22_Witness ==
  /\ rev = "v1"
  /\ Answered
  /\ stack = NoCall
  /\ OldRow \notin clips
  /\ \E c \in TextRows(clips) : c.text = OldRow.text /\ c.createdAt = now /\ answer.items = <<c>>
  /\ \E c \in ImageRows(clips) : c.createdAt > StartTime
  /\ OldImageRow \notin clips

----------------------------------------------------------------------------
(* The minimum-gap guard *)

\* when the poller sampled the clipboard last (0: not yet); every tick of the
\* later revision samples, and the clock of the model moves with the ticks
LastSample == IF rev = "v1" THEN lastSeenTick ELSE IF ticks = 0 THEN 0 ELSE now

----------------------------------------------------------------------------
(* Image inserts *)

\* the Image records of S that are among the n newest Image records
AmongNewest(S, c, n) ==
  Cardinality({ x \in ImageRows(S) : x.createdAt > c.createdAt }) < n

\* the stored payload has the signature of the payload png: same length of the
\* data URL, same leading bytes
SameSignature(c, png) ==
  /\ DataUrlLen(c.imageDataUrl) = DataUrlLen(png)
  /\ c.imageDataUrl[1] = png[1]

\* C24: an image insert deletes at most one record, the most recent one among
\* the 30 newest Image records that has the signature of the new payload, and
\* inserts one fresh Image record; an Image record with that signature outside
\* the 30 newest is kept, and no Text record is touched.
C24_ImageDedupWindow ==
  [][ (rev = "v1" /\ TickStep /\ last'.emit = "image")
      => LET inWindow == { c \in ImageRows(clips) :
                             AmongNewest(clips, c, 30) /\ SameSignature(c, clipImg) }
             deleted == clips \ clips'
             fresh == clips' \ clips
         IN  /\ Cardinality(deleted) <= 1
             /\ deleted \subseteq inWindow
             /\ inWindow # {} => \E c \in deleted : \A x \in inWindow : x.createdAt <= c.createdAt
             /\ \E c \in fresh : /\ fresh = { c }
                                 /\ c.kind = "image"
                                 /\ c.imageDataUrl = clipImg
                                 /\ c.createdAt = now'
             /\ TextRows(clips') = TextRows(clips) ]_vars

C24_Witness ==
  /\ rev = "v1"
  /\ last = Did("poll", TRUE, "image", TRUE)
  /\ clipImg = CopiedImage
  /\ Cardinality(ImageRows(clips)) = MaxImages
  /\ \E c \in ImageRows(clips) : /\ c.createdAt < StartTime
                                  /\ SameSignature(c, clipImg)
                                  /\ ~AmongNewest(clips, c, DEDUP_WINDOW)
  /\ \E c \in ImageRows(clips) : c.createdAt = now /\ c.imageDataUrl = clipImg

----------------------------------------------------------------------------
(* The two tracks of the poller *)

\* C25: a tick that emits a Text change leaves the last known image signature
\* unchanged, a tick that emits an Image change leaves the last known text
\* unchanged, and a tick examines the image (emits an Image change or moves
\* the last known image signature) only when the trimmed clipboard text is
\* empty or equal to the last known text.
C25_IndependentTracks ==
  [][ TickStep
      => /\ last'.emit = "text" => lastImageSig' = lastImageSig
         /\ last'.emit = "image" => lastText' = lastText
         /\ (last'.emit = "image" \/ lastImageSig' # lastImageSig)
            => (Trim(clipText) = <<>> \/ Trim(clipText) = lastText) ]_vars

C25_Witness ==
  /\ last = Did("poll", TRUE, "image", TRUE)
  /\ lastText # <<>>
  /\ Trim(clipText) = lastText
  /\ lastImageSig # NoSig
  /\ copies >= 2

----------------------------------------------------------------------------
(* What a record keeps for life *)

IdsOf(S) == { c.id : c \in S }

\* C26: id, kind and createdAt of a record never change: a record that is in
\* the store before and after a step has the same kind and createdAt, ids are
\* unique, and the id of a new record carries the time of its insert, later
\* than every id issued before, so that no id is ever used again.
C26_IdentityImmutable ==
  [][ /\ \A c \in clips, x \in clips' :
           c.id = x.id => (x.kind = c.kind /\ x.createdAt = c.createdAt)
      /\ \A x, y \in clips' : x.id = y.id => x = y
      /\ \A x \in clips' : x.id \notin IdsOf(clips)
           => (x.id[1] = now' /\ x.createdAt = now' /\ now' > now) ]_vars

C26_Witness ==
  /\ edits >= 2
  /\ ticks >= 1
  /\ \E c \in clips : /\ c.id = OldRow.id
                      /\ c.kind = OldRow.kind
                      /\ c.createdAt = OldRow.createdAt
                      /\ c.pinned = 1
                      /\ c.text # OldRow.text

\* C27: every record has exactly one payload, the one of its kind: a Text
\* record has a text value and no image payload, an Image record has an image
\* payload and no text value.
C27_OnePayload ==
  \A c \in clips :
    /\ c.kind \in { "text", "image" }
    /\ c.kind = "text" => (c.text # NULL /\ c.imageDataUrl = NULL)
    /\ c.kind = "image" => (c.imageDataUrl # NULL /\ c.imageDataUrl # NoImage /\ c.text = NULL)

C27_Witness ==
  /\ last.op = "rename-clip"
  /\ \E c \in ImageRows(clips) : c.imageName = <<"n">> /\ c.createdAt > StartTime
  /\ \E c \in TextRows(clips) : c.createdAt < StartTime

\* update-clip-text is called with the id of an Image record, or rename-clip
\* with the id of a Text record
WrongKindCall ==
  \/ \E id \in IdsOf(ImageRows(clips)), text \in EditTexts :
       update_clip_text(id, text) \/ updateClipText(id, text)
  \/ \E id \in IdsOf(TextRows(clips)), name \in EditNames :
       rename_clip(id, name) \/ renameClip(id, name)

\* the records of S the step changed, and what they have become
Changed(S, T) == { <<c, x>> \in (S \ T) \X (T \ S) : c.id = x.id }

\* C28: update-clip-text on the id of an Image record and rename-clip on the
\* id of a Text record leave the store unchanged; update-clip-text changes
\* nothing but the text (and updatedAt) of one Text record, rename-clip
\* nothing but the display name (and updatedAt) of one Image record.
C28_KindRestricted ==
  [][ /\ (EditStep /\ WrongKindCall) => clips' = clips
      /\ (EditStep /\ last'.op = "update-clip-text")
         => /\ IdsOf(clips') = IdsOf(clips)
            /\ Cardinality(clips \ clips') <= 1
            /\ \A p \in Changed(clips, clips') :
                 /\ p[1].kind = "text"
                 /\ p[2] = [ p[1] EXCEPT !.text = p[2].text, !.updatedAt = p[2].updatedAt ]
      /\ (EditStep /\ last'.op = "rename-clip")
         => /\ IdsOf(clips') = IdsOf(clips)
            /\ Cardinality(clips \ clips') <= 1
            /\ \A p \in Changed(clips, clips') :
                 /\ p[1].kind = "image"
                 /\ p[2] = [ p[1] EXCEPT !.imageName = p[2].imageName,
                                         !.updatedAt = p[2].updatedAt ] ]_vars

C28_Witness ==
  /\ rev = "v3"
  /\ last.op = "update-clip-text"
  /\ \E c \in TextRows(clips) : c.id = OldRow.id /\ c.text # OldRow.text /\ c.updatedAt = now
  /\ \E c \in ImageRows(clips) : c.updatedAt = NoTime /\ c.text = NULL

----------------------------------------------------------------------------
(* Growth of the history *)

\* C29: a text insert evicts nothing: every record whose text differs from
\* the inserted text, and every Image record, is still there unchanged, the
\* number of records does not go down, however many records the store holds.
C29_InsertNeverEvicts ==
  [][ (TickStep /\ last'.emit = "text")
      => /\ \A c \in clips : (c.kind = "image" \/ c.text # lastText') => c \in clips'
         /\ Cardinality(clips') >= Cardinality(clips)
         /\ \E c \in clips' \ clips : c.text = lastText' ]_vars

C29_Witness ==
  /\ Answered
  /\ ticks >= 1
  /\ Cardinality(clips) > MaxRows + 1
  /\ Len(answer.items) = HistoryLimit(rev)
  /\ \E c \in TextRows(clips) : /\ c.text = <<"a">>
                                 /\ c.createdAt > StartTime
                                 /\ c \in ItemsOf(answer.items)

\* C30: when the poller inserts a text the store already holds, the fresh
\* record is not pinned and has no tags, whatever the pin and the tags of the
\* record it replaces.
C30_ReplaceDropsMetadata ==
  [][ (TickStep /\ last'.emit = "text" /\ SameText(clips, lastText') # {})
      => \A c \in clips' \ clips : c.pinned = 0 /\ c.tags = <<>> ]_vars

C30_Witness ==
  /\ rev = "v1"
  /\ last = Did("poll", TRUE, "text", TRUE)
  /\ lastText = <<"t", ToString(PinEvery)>>
  /\ Cardinality(SameText(clips, lastText)) = 1
  /\ \A c \in SameText(clips, lastText) : c.createdAt = now /\ c.pinned = 0 /\ c.tags = <<>>

----------------------------------------------------------------------------
(* The filter and the cap of get-history *)

\* the record matches the token of the query
Matching(query, c) ==
  IF IsBlank(query) THEN TRUE
  ELSE IF IsImageToken(query) THEN c.kind = "image"
  ELSE \E i \in 1..Len(query), j \in 1..Len(query) :
         IsTrimOf(SubSeq(query, i, j), query) /\ Found(SubSeq(query, i, j), c)

\* fewer than cap records of S rank before c
WithinCap(S, c, cap) == Cardinality({ x \in S : RanksBefore(x, c) }) < cap

\* C31: the filter is applied after the cap: the answer to a query is the
\* matching records among the top-ranked cap records of the store (300; 400 in
\* the later revision), in rank order; a matching record ranked beyond the
\* cap is not returned, even when fewer than cap records match.
C31_FilterAfterCap ==
  LET items == answer.items
      cap == IF rev = "v1" THEN 300 ELSE 400
  IN  Answered
      => /\ ItemsOf(items) = { c \in clips : Matching(answer.query, c) /\ WithinCap(clips, c, cap) }
         /\ \A k \in 1..(Len(items) - 1) : RanksBefore(items[k], items[k + 1])

C31_Witness ==
  /\ Answered
  /\ answer.query = <<"t", "1">>
  /\ Cardinality(clips) = HistoryLimit(rev) + 1
  /\ answer.items = <<>>
  /\ \E c \in clips : c.text = <<"t", "1">> /\ Matching(answer.query, c)

----------------------------------------------------------------------------
(* Properties of the last-known text *)

\* the text on the clipboard, as the poller compares it
Sampled == Trim(clipText)

\* C32 as claimed: once the user has deleted the record whose text is on the
\* clipboard (or has cleared the history), a tick that finds the clipboard
\* unchanged does not create a record for that text.  The case checked: the
\* record was in the list the renderer showed, the delete was the user's only
\* edit, and the tick is the next event.
C32_DeletedStaysDeleted ==
  [][ ( /\ TickStep
        /\ last.op \in { "delete-clip", "clear-all" }
        /\ edits = 1
        /\ Sampled # <<>>
        /\ \E c \in ItemsOf(answer.items) : c.text = Sampled
        /\ SameText(clips, Sampled) = {} )
      => SameText(clips', Sampled) = {} ]_vars

\* C32 as amended: no delete or clear-all changes the last-known text or
\* image signature, and when the record deleted held the last-known text, a
\* tick that finds that text on the clipboard does not create a record for it.
C32_CapturedStaysDeleted ==
  [][ /\ EditStep => (lastText' = lastText /\ lastImageSig' = lastImageSig)
      /\ (TickStep /\ Sampled = lastText /\ SameText(clips, lastText) = {})
         => (SameText(clips', lastText) = {} /\ lastText' = lastText) ]_vars

C32_Witness ==
  /\ last.op = "poll"
  /\ ticks >= 1
  /\ edits >= 1
  /\ Sampled = CapturedRow.text
  /\ lastText = Sampled
  /\ SameText(clips, Sampled) = {}

\* C33: the last-known text changes only in a tick that samples a non-empty
\* trimmed text different from it, and becomes that text; a tick that finds
\* the clipboard text empty, whitespace-only or equal to the last-known text
\* emits no Text change and leaves every Text record as it is, so a text that
\* leaves the clipboard and comes back is not captured again.
C33_LastTextUpdate ==
  [][ /\ lastText' # lastText
         => (TickStep /\ Sampled # <<>> /\ Sampled # lastText /\ lastText' = Sampled)
      /\ (TickStep /\ Sampled \in { <<>>, lastText })
         => /\ last'.emit # "text"
            /\ lastText' = lastText
            /\ TextRows(clips') = TextRows(clips) ]_vars

C33_Witness ==
  /\ last = Did("poll", TRUE, "none", FALSE)
  /\ ticks = 2
  /\ copies = 2
  /\ edits = 0
  /\ clipText = CapturedRow.text
  /\ lastText = CapturedRow.text
  /\ clips = { OlderRow, CapturedRow }

\* C34: the process starts with an empty last-known text and image
\* signature, so the first accepted tick takes a non-empty clipboard text T as
\* a change even when a record with text T is stored; with insertTextClip the
\* store then holds exactly one record with text T, with a new id and
\* createdAt.
C34_RestartRecaptures ==
  [][ ( /\ rev = "v1"
        /\ AcceptedTick
        /\ lastText = <<>> /\ lastImageSig = NoSig /\ lastSeenTick = 0
        /\ Sampled # <<>>
        /\ SameText(clips, Sampled) # {} )
      => /\ last'.emit = "text"
         /\ lastText' = Sampled
         /\ Cardinality(SameText(clips', Sampled)) = 1
         /\ \A c \in SameText(clips', Sampled) : c.createdAt = now' /\ c.id \notin IdsOf(clips) ]_vars

----------------------------------------------------------------------------
(* Properties of toggle-pin and set-popup-shortcut *)

\* the store with the pin of record id flipped, and nothing else changed
Flipped(S, id) ==
  { IF c.id = id THEN [ c EXCEPT !.pinned = 1 - c.pinned ] ELSE c : c \in S }

\* C35: toggle-pin on an existing record flips its pinned flag between 0 and
\* 1 and changes no other record and no other field; the flag is always 0 or
\* 1, so flipping it twice gives the original store back.
C35_TogglePinInvolution ==
  [][ \A id \in IdsOf(clips) :
        toggle_pin(id)
        => /\ \A c \in clips : c.pinned \in { 0, 1 }
           /\ clips' = Flipped(clips, id)
           /\ clips' # clips
           /\ Flipped(clips', id) = clips ]_vars

C35_Witness ==
  /\ last.op = "toggle-pin"
  /\ edits = 2
  /\ ticks = 0
  /\ copies = 0
  /\ clips = { [ OldRow EXCEPT !.pinned = 1 ], [ OlderRow EXCEPT !.pinned = 1 ] }

\* the handler is called with accelerator a, and registration gives registered
ShortcutCall(a, registered) ==
  set_popup_shortcut(a, registered) \/ setPopupShortcut(a, registered)

\* C36: set-popup-shortcut called with an empty accelerator, or with one
\* whose registration fails, answers ok = false and leaves the stored
\* popupShortcut as it is; the call stores the accelerator only when it is
\* not empty and its registration has succeeded, and then answers ok = true.
C36_ShortcutStoredAfterRegistration ==
  [][ \A a \in Accelerators, registered \in BOOLEAN :
        ShortcutCall(a, registered)
        => /\ (IsBlank(a) \/ ~registered) => (reply' = "{ok:false}" /\ settings' = settings)
           /\ reply' = "{ok:false}" => settings' = settings
           /\ settings' # settings => (registered /\ ~IsBlank(a) /\ reply' = "{ok:true}") ]_vars

C36_Witness ==
  /\ last.op = "set-popup-shortcut"
  /\ restarts = 2
  /\ reply = "{ok:false}"
  /\ getSetting(settings, "popupShortcut") = <<"Alt+V">>

====
